---- MODULE Spec2Model ----
(***************************************************************************)
(* Fleet deployment and map-fit validation of the Battleship game          *)
(* (src/run.py).  Strings are modelled as sequences of one-character       *)
(* strings, so that the character indexing done by search_pattern and the  *)
(* string concatenation done by Ship.get_symbols are computed as the code  *)
(* computes them.  A grid is a function row -> column -> string, rows and  *)
(* columns counted from 0 as in the code.                                  *)
(***************************************************************************)
EXTENDS Integers, Sequences, FiniteSets, TLC

\* ------------------------------------------------------------------ bounds
MaxHeight == 2
MaxWidth == 2
MaxShips == 2
MaxShipSize == 2

\* ------------------------------------------------------- program constants
RetryLimit_Mut == 50 - 1

\* check_fleet_fits_map: for _ in range(50)
RetryLimit == 50

\* cpu_deploy_all_ships: symbol_allocate_space = "x"
symbol_allocate_space == <<"x">>

\* DEFAULT_COLORS; "E" stands for the escape character \u001b
DEFAULT_COLORS ==
  [DarkYellow |-> <<"E", "[", "3", "3", "m">>,
   DarkBlue   |-> <<"E", "[", "3", "4", "m">>,
   DarkGreen  |-> <<"E", "[", "3", "2", "m">>,
   DarkRed    |-> <<"E", "[", "3", "1", "m">>,
   LightGray  |-> <<"E", "[", "3", "7", "m">>,
   Reset      |-> <<"E", "[", "0", "m">>]

\* DEFAULT_SHIP_SYMBOLS; each glyph is one character, named here
DEFAULT_SHIP_SYMBOLS ==
  [Single     |-> << <<"25C6">> >>,
   Horizontal |-> << <<"25C0">>, <<"25A4">> >>,
   Vertical   |-> << <<"25B2">>, <<"25A5">> >>]

\* DEFAULT_SHIPS: the name the default table gives to a ship of a size
DefaultShipName(size) ==
  CASE size = 5 -> "AircraftCarrier"
    [] size = 4 -> "Battleship"
    [] size = 3 -> "Cruiser"
    [] size = 2 -> "Destroyer"
    [] OTHER    -> "Tug Boat"

\* the free symbols a caller passes: the default "?" and the letter "x"
Symbols == { <<"?">>, <<"x">> }

VARIABLES
  grid,          \* content of the list object the caller passed as map_game
  grid0,         \* content of that object when check_fleet_fits_map was called
  map_game,      \* check_fleet_fits_map's variable map_game: "list" (the
                 \* caller's object) or "False"
  symbol,        \* the free symbol
  gaps,          \* the gap flag
  fleet_config,  \* the caller's fleet
  tmp_fleet,     \* the fleet clone of the current attempt
  attempt,       \* attempts started so far
  failed,        \* attempts that returned False so far
  raised,        \* attempts that ended in the except branch so far
  pc,            \* "loop", "deploy", "done"; "idle" outside a call
  result,        \* "none", "list" (the grid), "False"
  game_settings,     \* the live game_settings object
  default_fleet,     \* the live fleet
  tmp_game_settings, \* settings_map_size_change: the candidate settings
  flow,          \* who called check_fleet_fits_map: "call" (a direct call),
                 \* or the settings screen "resize", "add", "modify";
                 \* "menu" when a settings screen waits for input
  last_op,       \* what the last settings input did
  returned,      \* the values cpu_deploy_all_ships has returned in this call:
                 \* placement, at line 1352 (a ship could not be placed), and
                 \* exception, at line 1371 (the except branch); "none" when
                 \* that return has not been executed
  gaps_arg       \* the object passed as check_fleet_fits_map's argument
                 \* gaps, as its Python integer value (True is 1, False is 0)

oracle_vars == <<grid, grid0, map_game, symbol, gaps, fleet_config, tmp_fleet,
                 attempt, failed, raised, pc, result, returned, gaps_arg>>

settings_vars == <<game_settings, default_fleet, tmp_game_settings, flow,
                   last_op>>

vars == <<grid, grid0, map_game, symbol, gaps, fleet_config, tmp_fleet,
          attempt, failed, raised, pc, result, game_settings, default_fleet,
          tmp_game_settings, flow, last_op, returned, gaps_arg>>

\* the integer value of a Python bool
PyInt(b) == IF b THEN 1 ELSE 0

\* ------------------------------------------------------------ strings
\* s * n
RECURSIVE StrRepeat(_, _)
StrRepeat(s, n) == IF n <= 0 THEN <<>> ELSE s \o StrRepeat(s, n - 1)

\* ------------------------------------------------------------ Ship, Fleet
\* Ship.__init__
Ship(name, size) ==
  [name |-> name, size |-> size, cell_coordinates |-> <<>>, sunk |-> FALSE,
   color |-> IF size = 1 THEN DEFAULT_COLORS.DarkYellow ELSE <<>>,
   alignment |-> IF size = 1 THEN "Single" ELSE "None",
   deployed |-> FALSE]

\* Ship.set_alignment
set_alignment(ship, alignment) ==
  [ship EXCEPT !.alignment = alignment,
               !.color = CASE alignment = "Horizontal" -> DEFAULT_COLORS.DarkBlue
                           [] alignment = "Vertical" -> DEFAULT_COLORS.DarkGreen
                           [] OTHER -> @]

\* Ship.get_symbols
get_symbols(ship) ==
  LET color == IF ship.sunk THEN DEFAULT_COLORS.DarkRed ELSE ship.color
      symbols == DEFAULT_SHIP_SYMBOLS[ship.alignment]
  IN  [i \in 1..ship.size |->
         color \o (IF i = 1 THEN symbols[1] ELSE symbols[2])
               \o DEFAULT_COLORS.Reset]

create_fleet_Mut(fleet) == fleet

\* create_fleet(fleet) for an existing fleet: one new Ship per ship
create_fleet(fleet) ==
  [i \in 1..Len(fleet) |-> Ship(fleet[i].name, fleet[i].size)]

get_biggest_ship_by_deployed_status_Mut(fleet) ==
  LET cand == {i \in 1..Len(fleet) : ~fleet[i].deployed}
  IN  IF cand = {} THEN 0
      ELSE CHOOSE i \in cand : \A j \in cand : i <= j

\* Fleet.get_biggest_ship_by_deployed_status(False): index of the first ship
\* of maximal size among the undeployed ones, 0 for None
get_biggest_ship_by_deployed_status(fleet) ==
  LET cand == {i \in 1..Len(fleet) : ~fleet[i].deployed}
  IN  IF cand = {} THEN 0
      ELSE CHOOSE i \in cand :
             /\ \A j \in cand : fleet[j].size <= fleet[i].size
             /\ \A j \in cand : fleet[j].size = fleet[i].size => i <= j

\* ------------------------------------------------------------ grid
map_height(m) == Cardinality(DOMAIN m)
map_width(m) == Cardinality(DOMAIN m[0])

\* create_map
create_map(height, width, sym) ==
  [r \in 0..(height - 1) |-> [c \in 0..(width - 1) |-> sym]]

search_pattern_MutOrder(m, height, width, symbol_to_search) ==
  LET rows == map_height(m) - height + 1
      cols == map_width(m) - width + 1
      pattern == [i \in 0..(height - 1) |-> StrRepeat(symbol_to_search, width)]
      anchors == IF rows <= 0 \/ cols <= 0 THEN <<>>
                 ELSE [k \in 1..(rows * cols) |->
                         <<(k - 1) % rows, (k - 1) \div rows>>]
      matches(a) == \A i \in 0..(height - 1) : \A j \in 0..(width - 1) :
                      m[a[1] + i][a[2] + j] = <<pattern[i][j + 1]>>
  IN  SelectSeq(anchors, matches)

search_pattern_MutRange(m, height, width, symbol_to_search) ==
  LET rows == map_height(m) - height
      cols == map_width(m) - width
      pattern == [i \in 0..(height - 1) |-> StrRepeat(symbol_to_search, width)]
      anchors == IF rows <= 0 \/ cols <= 0 THEN <<>>
                 ELSE [k \in 1..(rows * cols) |->
                         <<(k - 1) \div cols, (k - 1) % cols>>]
      matches(a) == \A i \in 0..(height - 1) : \A j \in 0..(width - 1) :
                      m[a[1] + i][a[2] + j] = <<pattern[i][j + 1]>>
  IN  SelectSeq(anchors, matches)

search_pattern_Mut(m, height, width, symbol_to_search) ==
  LET rows == map_height(m) - height + 1
      cols == map_width(m) - width + 1
  IN  IF rows <= 0 \/ cols <= 0 THEN <<>>
      ELSE [k \in 1..(rows * cols) |-> <<(k - 1) \div cols, (k - 1) % cols>>]

\* search_pattern: anchors in row-major order
search_pattern(m, height, width, symbol_to_search) ==
  LET rows == map_height(m) - height + 1
      cols == map_width(m) - width + 1
      pattern == [i \in 0..(height - 1) |-> StrRepeat(symbol_to_search, width)]
      anchors == IF rows <= 0 \/ cols <= 0 THEN <<>>
                 ELSE [k \in 1..(rows * cols) |->
                         <<(k - 1) \div cols, (k - 1) % cols>>]
      matches(a) == \A i \in 0..(height - 1) : \A j \in 0..(width - 1) :
                      m[a[1] + i][a[2] + j] = <<pattern[i][j + 1]>>
  IN  SelectSeq(anchors, matches)

create_coordinate_list_Mut(row, column, alignment, ship_size) ==
  IF ship_size = 1 THEN << <<row, column>> >>
  ELSE (IF alignment = "Horizontal"
          THEN [cell \in 1..ship_size |-> <<row + cell - 1, column>>]
          ELSE <<>>)
       \o
       (IF alignment = "Vertical"
          THEN [cell \in 1..ship_size |-> <<row, column + cell - 1>>]
          ELSE <<>>)

\* create_coordinate_list
create_coordinate_list(row, column, alignment, ship_size) ==
  IF ship_size = 1 THEN << <<row, column>> >>
  ELSE (IF alignment = "Horizontal"
          THEN [cell \in 1..ship_size |-> <<row, column + cell - 1>>]
          ELSE <<>>)
       \o
       (IF alignment = "Vertical"
          THEN [cell \in 1..ship_size |-> <<row + cell - 1, column>>]
          ELSE <<>>)

cpu_deploy_get_coordinates_Mut(m, ship_size, sym, first) ==
  IF ship_size = 1
    THEN LET res == search_pattern(m, 1, 1, sym)
         IN  [ok |-> res # <<>>, alignment |-> "Single", coordinates |-> res]
    ELSE LET search(al) == search_pattern(m,
                                          IF al = "Horizontal" THEN 1 ELSE ship_size,
                                          IF al = "Vertical" THEN 1 ELSE ship_size,
                                          sym)
         IN  IF search(first) # <<>>
               THEN [ok |-> TRUE, alignment |-> first, coordinates |-> search(first)]
               ELSE [ok |-> FALSE, alignment |-> first, coordinates |-> <<>>]

\* cpu_deploy_get_coordinates; first is the alignment random.choice draws.
\* ok = FALSE stands for the return value False.
cpu_deploy_get_coordinates(m, ship_size, sym, first) ==
  IF ship_size = 1
    THEN LET res == search_pattern(m, 1, 1, sym)
         IN  [ok |-> res # <<>>, alignment |-> "Single", coordinates |-> res]
    ELSE LET other == IF first = "Vertical" THEN "Horizontal" ELSE "Vertical"
             search(al) == search_pattern(m,
                                          IF al = "Horizontal" THEN 1 ELSE ship_size,
                                          IF al = "Vertical" THEN 1 ELSE ship_size,
                                          sym)
         IN  IF search(first) # <<>>
               THEN [ok |-> TRUE, alignment |-> first, coordinates |-> search(first)]
               ELSE IF search(other) # <<>>
                 THEN [ok |-> TRUE, alignment |-> other, coordinates |-> search(other)]
                 ELSE [ok |-> FALSE, alignment |-> other, coordinates |-> <<>>]

\* cpu_deploy_single_ship; k is the index random.choice draws in the list
cpu_deploy_single_ship(m, ship_size, sym, first, k) ==
  LET rr == cpu_deploy_get_coordinates(m, ship_size, sym, first)
  IN  IF ~rr.ok THEN [ok |-> FALSE, alignment |-> rr.alignment, coordinates |-> <<>>]
      ELSE LET location == rr.coordinates[k]
           IN  [ok |-> TRUE, alignment |-> rr.alignment,
                coordinates |-> create_coordinate_list(location[1], location[2],
                                                       rr.alignment, ship_size)]

\* the relative positions map_allocate_empty_space_for_ship walks
blank_space ==
  { <<-1, -1>>, <<-1, 0>>, <<-1, 1>>, <<0, -1>>, <<0, 0>>, <<0, 1>>,
    <<1, -1>>, <<1, 0>>, <<1, 1>> }

map_allocate_empty_space_for_ship_Mut(m, coordinates_list, sym) ==
  LET orthogonal == { s \in blank_space : s[1] = 0 \/ s[2] = 0 }
      blank_space_coordinates ==
        { <<s[1] + coordinates_list[n][1], s[2] + coordinates_list[n][2]>> :
            s \in orthogonal, n \in 1..Len(coordinates_list) }
  IN  [r \in DOMAIN m |-> [c \in DOMAIN m[r] |->
         IF <<r, c>> \in blank_space_coordinates THEN sym ELSE m[r][c]]]

\* map_allocate_empty_space_for_ship
map_allocate_empty_space_for_ship(m, coordinates_list, sym) ==
  LET blank_space_coordinates ==
        { <<s[1] + coordinates_list[n][1], s[2] + coordinates_list[n][2]>> :
            s \in blank_space, n \in 1..Len(coordinates_list) }
  IN  [r \in DOMAIN m |-> [c \in DOMAIN m[r] |->
         IF <<r, c>> \in blank_space_coordinates THEN sym ELSE m[r][c]]]

map_show_symbols_Mut(m, coordinates_list, symbols_list) == m

\* map_show_symbols
map_show_symbols(m, coordinates_list, symbols_list) ==
  [r \in DOMAIN m |-> [c \in DOMAIN m[r] |->
     IF \E i \in 1..Len(coordinates_list) : coordinates_list[i] = <<r, c>>
       THEN symbols_list[CHOOSE i \in 1..Len(coordinates_list) :
                           /\ coordinates_list[i] = <<r, c>>
                           /\ \A j \in 1..Len(coordinates_list) :
                                coordinates_list[j] = <<r, c>> => j <= i]
       ELSE m[r][c]]]

map_show_only_ships_Mut(m, symbol_to_remove, default_symbol) == m

\* map_show_only_ships
map_show_only_ships(m, symbol_to_remove, default_symbol) ==
  [r \in DOMAIN m |-> [c \in DOMAIN m[r] |->
     IF m[r][c] = symbol_to_remove THEN default_symbol ELSE m[r][c]]]

\* the alignments random.choice draws from in cpu_deploy_get_coordinates
Alignments == {"Vertical", "Horizontal"}

\* cpu_deploy_all_ships, lines 1344-1352: does cpu_deploy_single_ship return
\* a placement for the biggest undeployed ship when `first` is drawn
CanPlace(m, fleet, sym, first) ==
  LET n == get_biggest_ship_by_deployed_status(fleet)
  IN  cpu_deploy_get_coordinates(m, fleet[n].size, sym, first).ok

\* the length of the list random.choice draws the anchor from
NumAnchors(m, fleet, sym, first) ==
  LET n == get_biggest_ship_by_deployed_status(fleet)
  IN  Len(cpu_deploy_get_coordinates(m, fleet[n].size, sym, first).coordinates)

deploy_commit_MutGaps(m, fleet, gapsFlag, sym, first, k) ==
  LET n == get_biggest_ship_by_deployed_status(fleet)
      res == cpu_deploy_single_ship(m, fleet[n].size, sym, first, k)
      ship_obj == [set_alignment(fleet[n], res.alignment)
                     EXCEPT !.cell_coordinates = res.coordinates,
                            !.deployed = TRUE]
      allocated == map_allocate_empty_space_for_ship(
                     m, res.coordinates, symbol_allocate_space)
  IN  [fleet |-> [fleet EXCEPT ![n] = ship_obj],
       map |-> map_show_symbols(allocated, res.coordinates,
                                get_symbols(ship_obj))]

deploy_commit_Mut(m, fleet, gapsFlag, sym, first, k) ==
  LET n == get_biggest_ship_by_deployed_status(fleet)
      res == cpu_deploy_single_ship(m, fleet[n].size, sym, first, k)
      ship_obj == [set_alignment(fleet[n], res.alignment)
                     EXCEPT !.cell_coordinates = res.coordinates]
      allocated == IF gapsFlag
                     THEN map_allocate_empty_space_for_ship(
                            m, res.coordinates, symbol_allocate_space)
                     ELSE m
  IN  [fleet |-> [fleet EXCEPT ![n] = ship_obj],
       map |-> map_show_symbols(allocated, res.coordinates,
                                get_symbols(ship_obj))]

\* cpu_deploy_all_ships, lines 1344-1368: place the biggest undeployed ship
\* with the draws first and k, commit it to the ship and to the map
deploy_commit(m, fleet, gapsFlag, sym, first, k) ==
  LET n == get_biggest_ship_by_deployed_status(fleet)
      res == cpu_deploy_single_ship(m, fleet[n].size, sym, first, k)
      ship_obj == [set_alignment(fleet[n], res.alignment)
                     EXCEPT !.cell_coordinates = res.coordinates,
                            !.deployed = TRUE]
      allocated == IF gapsFlag
                     THEN map_allocate_empty_space_for_ship(
                            m, res.coordinates, symbol_allocate_space)
                     ELSE m
  IN  [fleet |-> [fleet EXCEPT ![n] = ship_obj],
       map |-> map_show_symbols(allocated, res.coordinates,
                                get_symbols(ship_obj))]

\* ------------------------------------------------------------ inputs
RECURSIVE SizeSeqs(_)
SizeSeqs(n) ==
  IF n = 0 THEN { <<>> }
  ELSE SizeSeqs(n - 1) \cup
       { Append(s, z) : s \in {t \in SizeSeqs(n - 1) : Len(t) = n - 1},
                        z \in 1..MaxShipSize }

\* the grids a caller passes, as (height, width): every size within the
\* bounds, and the 3x3 grid
GridSizes ==
  ((1..MaxHeight) \X (1..MaxWidth)) \cup { <<3, 3>> }

\* the fleets a caller passes: every fleet within the bounds, and the
\* single AircraftCarrier
Fleets ==
  { [i \in 1..Len(s) |-> Ship(DefaultShipName(s[i]), s[i])] :
      s \in SizeSeqs(MaxShips) \cup { <<5>> } }

\* game_settings.__init__ with its default arguments
game_settings_init ==
  [height |-> 10, width |-> 10, symbol |-> <<"?">>, gaps |-> TRUE,
   maps_gap |-> 5]

\* ------------------------------------------------------------ behaviour
Init ==
  /\ symbol \in Symbols
  /\ gaps \in BOOLEAN
  /\ \E hw \in GridSizes : grid = create_map(hw[1], hw[2], symbol)
  /\ grid0 = grid
  /\ map_game = "list"
  /\ fleet_config \in Fleets
  /\ tmp_fleet = <<>>
  /\ attempt = 0
  /\ failed = 0
  /\ raised = 0
  /\ pc = "loop"
  /\ result = "none"
  /\ game_settings = game_settings_init
  /\ default_fleet = <<>>
  /\ tmp_game_settings = game_settings_init
  /\ flow = "call"
  /\ last_op = "none"
  /\ returned = [placement |-> "none", exception |-> "none"]
  /\ gaps_arg = PyInt(gaps)

AttemptStart_MutNoCount ==
  /\ pc = "loop"
  /\ attempt < RetryLimit
  /\ attempt' = attempt
  /\ tmp_fleet' = create_fleet(fleet_config)
  /\ pc' = "deploy"
  /\ UNCHANGED <<grid, grid0, map_game, symbol, gaps, fleet_config, failed,
                 raised, result>>
  /\ UNCHANGED settings_vars
  /\ UNCHANGED returned
  /\ UNCHANGED gaps_arg

\* check_fleet_fits_map, loop head: a new attempt builds tmp_fleet, binds
\* tmp_map to map_game (no copy) and enters cpu_deploy_all_ships
AttemptStart ==
  /\ pc = "loop"
  /\ attempt < RetryLimit
  /\ attempt' = attempt + 1
  /\ tmp_fleet' = create_fleet(fleet_config)
  /\ pc' = "deploy"
  /\ UNCHANGED <<grid, grid0, map_game, symbol, gaps, fleet_config, failed,
                 raised, result>>
  /\ UNCHANGED settings_vars
  /\ UNCHANGED returned
  /\ UNCHANGED gaps_arg

\* check_fleet_fits_map, loop exhausted: return False
OracleGiveUp ==
  /\ pc = "loop"
  /\ attempt >= RetryLimit
  /\ result' = "False"
  /\ pc' = "done"
  /\ UNCHANGED <<grid, grid0, map_game, symbol, gaps, fleet_config, tmp_fleet,
                 attempt, failed, raised>>
  /\ UNCHANGED settings_vars
  /\ UNCHANGED returned
  /\ UNCHANGED gaps_arg

\* cpu_deploy_all_ships: no undeployed ship is left; the buffer symbols are
\* cleared, the grid is returned and check_fleet_fits_map returns it
DeployComplete ==
  /\ pc = "deploy"
  /\ map_game = "list"
  /\ get_biggest_ship_by_deployed_status(tmp_fleet) = 0
  /\ grid' = map_show_only_ships(grid, symbol_allocate_space, symbol)
  /\ result' = "list"
  /\ pc' = "done"
  /\ UNCHANGED <<grid0, map_game, symbol, gaps, fleet_config, tmp_fleet,
                 attempt, failed, raised>>
  /\ UNCHANGED settings_vars
  /\ UNCHANGED returned
  /\ UNCHANGED gaps_arg

\* cpu_deploy_all_ships: one iteration that places the biggest undeployed ship
DeployShip ==
  /\ pc = "deploy"
  /\ map_game = "list"
  /\ get_biggest_ship_by_deployed_status(tmp_fleet) # 0
  /\ \E first \in Alignments :
       /\ CanPlace(grid, tmp_fleet, symbol, first)
       /\ \E k \in 1..NumAnchors(grid, tmp_fleet, symbol, first) :
            LET c == deploy_commit(grid, tmp_fleet, gaps, symbol, first, k)
            IN  /\ tmp_fleet' = c.fleet
                /\ grid' = c.map
  /\ UNCHANGED <<grid0, map_game, symbol, gaps, fleet_config, attempt, failed,
                 raised, pc, result>>
  /\ UNCHANGED settings_vars
  /\ UNCHANGED returned
  /\ UNCHANGED gaps_arg

DeployFail_MutFresh ==
  /\ pc = "deploy"
  /\ map_game = "list"
  /\ get_biggest_ship_by_deployed_status(tmp_fleet) # 0
  /\ \A first \in Alignments : ~CanPlace(grid, tmp_fleet, symbol, first)
  /\ grid' = grid0
  /\ failed' = failed + 1
  /\ pc' = "loop"
  /\ UNCHANGED <<grid0, map_game, symbol, gaps, fleet_config, tmp_fleet,
                 attempt, raised, result>>
  /\ UNCHANGED settings_vars
  /\ returned' = [returned EXCEPT !.placement = "False"]
  /\ UNCHANGED gaps_arg

DeployFail_Mut ==
  /\ pc = "deploy"
  /\ map_game = "list"
  /\ get_biggest_ship_by_deployed_status(tmp_fleet) # 0
  /\ \A first \in Alignments : ~CanPlace(grid, tmp_fleet, symbol, first)
  /\ result' = "list"
  /\ pc' = "done"
  /\ UNCHANGED <<grid, grid0, map_game, symbol, gaps, fleet_config, tmp_fleet,
                 attempt, failed, raised>>
  /\ UNCHANGED settings_vars
  /\ UNCHANGED returned
  /\ UNCHANGED gaps_arg

\* cpu_deploy_all_ships: cpu_deploy_single_ship returned False; the attempt
\* returns False and check_fleet_fits_map assigns it to map_game and continues
DeployFail ==
  /\ pc = "deploy"
  /\ map_game = "list"
  /\ get_biggest_ship_by_deployed_status(tmp_fleet) # 0
  /\ \A first \in Alignments : ~CanPlace(grid, tmp_fleet, symbol, first)
  /\ map_game' = "False"
  /\ failed' = failed + 1
  /\ pc' = "loop"
  /\ UNCHANGED <<grid, grid0, symbol, gaps, fleet_config, tmp_fleet, attempt,
                 raised, result>>
  /\ UNCHANGED settings_vars
  /\ returned' = [returned EXCEPT !.placement = "False"]
  /\ UNCHANGED gaps_arg

\* cpu_deploy_all_ships called with map_game = False: len(False) raises a
\* TypeError in search_pattern (or in map_show_only_ships for an empty
\* fleet); the except branch returns False
DeployError ==
  /\ pc = "deploy"
  /\ map_game = "False"
  /\ failed' = failed + 1
  /\ raised' = raised + 1
  /\ pc' = "loop"
  /\ UNCHANGED <<grid, grid0, map_game, symbol, gaps, fleet_config, tmp_fleet,
                 attempt, result>>
  /\ UNCHANGED settings_vars
  /\ returned' = [returned EXCEPT !.exception = "False"]
  /\ UNCHANGED gaps_arg

Next ==
  \/ AttemptStart
  \/ OracleGiveUp
  \/ DeployComplete
  \/ DeployShip
  \/ DeployFail
  \/ DeployError

Spec == Init /\ [][Next]_vars


\* ------------------------------------------------------------ settings
\* the values a user types on the settings screens
MaxSetHeight == 2
MaxSetWidth == 2
MaxSetSize == 2
MaxQty == 1
InputNames == {"Sub"}

\* Fleet.remove_ships_by_name
remove_ships_by_name(fleet, name) ==
  SelectSeq(fleet, LAMBDA ship : ship.name # name)

\* Fleet.add_new_ship
add_new_ship(fleet, base_name, size, quantity) ==
  fleet \o [i \in 1..quantity |-> Ship(base_name, size)]

\* Fleet.get_ship(name): is there an undeployed ship of that name
get_ship(fleet, name) ==
  \E i \in 1..Len(fleet) : fleet[i].name = name /\ ~fleet[i].deployed

\* what `if gaps:` in cpu_deploy_all_ships makes of an integer argument
TruthyInt(n) == n # 0

\* a caller enters check_fleet_fits_map(map, fleet, sym, gaps); gapsArg is
\* the integer value of the gaps argument
CallOracle(map, fleet, sym, gapsArg) ==
  /\ grid' = map
  /\ grid0' = map
  /\ map_game' = "list"
  /\ symbol' = sym
  /\ gaps' = TruthyInt(gapsArg)
  /\ gaps_arg' = gapsArg
  /\ fleet_config' = fleet
  /\ tmp_fleet' = <<>>
  /\ attempt' = 0
  /\ failed' = 0
  /\ raised' = 0
  /\ pc' = "loop"
  /\ result' = "none"
  /\ returned' = [placement |-> "none", exception |-> "none"]

\* the caller has read the result; the locals of the call are gone
LeaveOracle ==
  /\ grid' = create_map(1, 1, game_settings.symbol)
  /\ grid0' = create_map(1, 1, game_settings.symbol)
  /\ map_game' = "list"
  /\ symbol' = game_settings.symbol
  /\ gaps' = game_settings.gaps
  /\ gaps_arg' = PyInt(game_settings.gaps)
  /\ fleet_config' = <<>>
  /\ tmp_fleet' = <<>>
  /\ attempt' = 0
  /\ failed' = 0
  /\ raised' = 0
  /\ pc' = "idle"
  /\ result' = "none"
  /\ returned' = [placement |-> "none", exception |-> "none"]

\* a small configuration the settings screens reach from the defaults
\* (delete the five biggest ships, modify Tug Boat to one ship, resize the
\* map)
InitSettings ==
  /\ game_settings = [game_settings_init EXCEPT !.height = MaxSetHeight,
                                                !.width = MaxSetWidth]
  /\ default_fleet = << Ship("Tug Boat", 1) >>
  /\ tmp_game_settings = game_settings
  /\ flow = "menu"
  /\ last_op = "none"
  /\ grid = create_map(1, 1, game_settings.symbol)
  /\ grid0 = grid
  /\ map_game = "list"
  /\ symbol = game_settings.symbol
  /\ gaps = game_settings.gaps
  /\ fleet_config = <<>>
  /\ tmp_fleet = <<>>
  /\ attempt = 0
  /\ failed = 0
  /\ raised = 0
  /\ pc = "idle"
  /\ result = "none"
  /\ returned = [placement |-> "none", exception |-> "none"]
  /\ gaps_arg = PyInt(gaps)

\* settings_map_size_change: the user types "height,width"; check_fit is the
\* answer of map_calculate_max_dimensions for the terminal
MapSizeInput ==
  /\ flow = "menu"
  /\ \E height \in 1..MaxSetHeight, width \in 1..MaxSetWidth, check_fit \in BOOLEAN :
       LET tgs == [game_settings EXCEPT !.height = height, !.width = width]
       IN  /\ IF check_fit
                THEN /\ tmp_game_settings' = tgs
                     /\ CallOracle(create_map(height, width, game_settings.symbol),
                                   create_fleet(default_fleet),
                                   tgs.symbol, PyInt(tgs.gaps))
                     /\ flow' = "resize"
                     /\ last_op' = "resize_check"
                ELSE /\ flow' = "menu"
                     /\ last_op' = "resize_nofit"
                     /\ UNCHANGED tmp_game_settings
                     /\ UNCHANGED oracle_vars
  /\ UNCHANGED <<game_settings, default_fleet>>

MapSizeResult_Mut ==
  /\ flow = "resize"
  /\ pc = "done"
  /\ last_op' = "resize_commit"
  /\ game_settings' = [game_settings EXCEPT
                         !.height = tmp_game_settings.height,
                         !.width = tmp_game_settings.width]
  /\ flow' = "menu"
  /\ LeaveOracle
  /\ tmp_game_settings' = game_settings'
  /\ UNCHANGED default_fleet

\* settings_map_size_change, lines 2260-2276: the oracle has answered
MapSizeResult ==
  /\ flow = "resize"
  /\ pc = "done"
  /\ IF result = "False"
       THEN /\ last_op' = "resize_reject"
            /\ UNCHANGED game_settings
       ELSE /\ last_op' = "resize_commit"
            /\ game_settings' = [game_settings EXCEPT
                                   !.height = tmp_game_settings.height,
                                   !.width = tmp_game_settings.width]
  /\ flow' = "menu"
  /\ LeaveOracle
  /\ tmp_game_settings' = game_settings'
  /\ UNCHANGED default_fleet

\* settings_fleet_add_ship: the user types "name,size,qty"
AddShipInput ==
  /\ flow = "menu"
  /\ \E ship_name \in InputNames, ship_size \in 1..MaxSetSize,
        ship_qty \in 1..MaxQty :
       IF ~get_ship(default_fleet, ship_name)
         THEN /\ CallOracle(create_map(game_settings.height, game_settings.width,
                                       game_settings.symbol),
                            add_new_ship(create_fleet(default_fleet), ship_name,
                                         ship_size, ship_qty),
                            game_settings.symbol, game_settings.maps_gap)
              /\ flow' = "add"
              /\ last_op' = "add_check"
         ELSE /\ flow' = "menu"
              /\ last_op' = "add_exists"
              /\ UNCHANGED oracle_vars
  /\ UNCHANGED <<game_settings, default_fleet, tmp_game_settings>>

AddShipResult_Mut ==
  /\ flow = "add"
  /\ pc = "done"
  /\ last_op' = "add_commit"
  /\ default_fleet' = create_fleet(fleet_config)
  /\ flow' = "menu"
  /\ LeaveOracle
  /\ UNCHANGED <<game_settings, tmp_game_settings>>

\* settings_fleet_add_ship, lines 2685-2691: the oracle has answered;
\* fleet_config is the object test_fleet
AddShipResult ==
  /\ flow = "add"
  /\ pc = "done"
  /\ IF result = "False"
       THEN /\ last_op' = "add_reject"
            /\ UNCHANGED default_fleet
       ELSE /\ last_op' = "add_commit"
            /\ default_fleet' = create_fleet(fleet_config)
  /\ flow' = "menu"
  /\ LeaveOracle
  /\ UNCHANGED <<game_settings, tmp_game_settings>>

\* settings_fleet_change_selected_ship: for the selected ship the user types
\* "size,qty" (the name is kept) or "name,size,qty"
ChangeShipInput ==
  /\ flow = "menu"
  /\ \E n \in 1..Len(default_fleet) :
       \E new_ship_name \in InputNames \cup {default_fleet[n].name},
          new_ship_size \in 1..MaxSetSize, new_ship_qty \in 1..MaxQty :
         CallOracle(create_map(game_settings.height, game_settings.width,
                               game_settings.symbol),
                    add_new_ship(remove_ships_by_name(create_fleet(default_fleet),
                                                      default_fleet[n].name),
                                 new_ship_name, new_ship_size, new_ship_qty),
                    game_settings.symbol, game_settings.maps_gap)
  /\ flow' = "modify"
  /\ last_op' = "modify_check"
  /\ UNCHANGED <<game_settings, default_fleet, tmp_game_settings>>

\* settings_fleet_change_selected_ship, lines 2560-2568: the oracle has
\* answered
ChangeShipResult ==
  /\ flow = "modify"
  /\ pc = "done"
  /\ IF result = "False"
       THEN /\ last_op' = "modify_reject"
            /\ UNCHANGED default_fleet
       ELSE /\ last_op' = "modify_commit"
            /\ default_fleet' = create_fleet(fleet_config)
  /\ flow' = "menu"
  /\ LeaveOracle
  /\ UNCHANGED <<game_settings, tmp_game_settings>>

\* settings_fleet_delete_ship: the user selects a ship of the fleet table, by
\* index or by name and "Y"; its ships are removed from the live fleet
DeleteShip ==
  /\ flow = "menu"
  /\ \E n \in 1..Len(default_fleet) :
       default_fleet' = remove_ships_by_name(default_fleet, default_fleet[n].name)
  /\ last_op' = "delete"
  /\ UNCHANGED <<game_settings, tmp_game_settings, flow>>
  /\ UNCHANGED oracle_vars

NextSettings ==
  \/ AttemptStart
  \/ OracleGiveUp
  \/ DeployComplete
  \/ DeployShip
  \/ DeployFail
  \/ DeployError
  \/ MapSizeInput
  \/ MapSizeResult
  \/ AddShipInput
  \/ AddShipResult
  \/ ChangeShipInput
  \/ ChangeShipResult
  \/ DeleteShip

SpecSettings == InitSettings /\ [][NextSettings]_vars

\* ------------------------------------------------------------ screens
\* flow also names the screen that waits at input(): "instructions"
\* (game_instructions), "menu" (game_change_settings), "fleet"
\* (settings_fleet), "command" (user_command_input); "exit" when
\* game_instructions has returned the settings and the fleet, "error" when an
\* exception has left game_instructions

\* the program has shown the instructions; the settings are those of
\* InitSettings
InitScreens ==
  /\ game_settings = [game_settings_init EXCEPT !.height = MaxSetHeight,
                                                !.width = MaxSetWidth]
  /\ default_fleet = << Ship("Tug Boat", 1) >>
  /\ tmp_game_settings = game_settings
  /\ flow = "instructions"
  /\ last_op = "none"
  /\ grid = create_map(1, 1, game_settings.symbol)
  /\ grid0 = grid
  /\ map_game = "list"
  /\ symbol = game_settings.symbol
  /\ gaps = game_settings.gaps
  /\ gaps_arg = PyInt(gaps)
  /\ fleet_config = <<>>
  /\ tmp_fleet = <<>>
  /\ attempt = 0
  /\ failed = 0
  /\ raised = 0
  /\ pc = "idle"
  /\ result = "none"
  /\ returned = [placement |-> "none", exception |-> "none"]

\* game_instructions, lines 1744-1750: "Y" or "YES" opens the settings menu,
\* any other input returns the settings and the fleet
InstructionsInput ==
  /\ flow = "instructions"
  /\ \E user_input \in {"Y", "N"} :
       /\ flow' = IF user_input = "Y" THEN "menu" ELSE "exit"
       /\ last_op' = "typed " \o user_input
  /\ UNCHANGED <<game_settings, default_fleet, tmp_game_settings>>
  /\ UNCHANGED oracle_vars

\* game_change_settings, lines 1807-1823: "0" returns the settings and the
\* fleet to game_instructions, "F" opens settings_fleet, an input longer than
\* one character opens user_command_input
SettingsInput ==
  /\ flow = "menu"
  /\ \E user_input \in {"0", "F", "print"} :
       /\ flow' = CASE user_input = "0" -> "instructions"
                    [] user_input = "F" -> "fleet"
                    [] OTHER -> "command"
       /\ last_op' = "typed " \o user_input
  /\ UNCHANGED <<game_settings, default_fleet, tmp_game_settings>>
  /\ UNCHANGED oracle_vars

\* settings_fleet, lines 2310-2313: "0" returns the settings and the fleet to
\* game_change_settings
FleetInput ==
  /\ flow = "fleet"
  /\ flow' = "menu"
  /\ last_op' = "typed 0"
  /\ UNCHANGED <<game_settings, default_fleet, tmp_game_settings>>
  /\ UNCHANGED oracle_vars

\* user_command_input, lines 1871-1878: an empty input runs
\* execute_user_command, which compares the list find_best_match returned
\* with strings and does nothing; a one-character input is compared with the
\* integer 0 (line 1876), which no string equals, and is printed; every input
\* ends in the next iteration of `while True`
CommandInput ==
  /\ flow = "command"
  /\ \E user_input \in {"0", "", "print"} :
       last_op' = "typed " \o user_input
  /\ flow' = "command"
  /\ UNCHANGED <<game_settings, default_fleet, tmp_game_settings>>
  /\ UNCHANGED oracle_vars

\* user_command_input, lines 1881-1884: KeyboardInterrupt returns False;
\* game_change_settings (line 1823) drops the value and shows the menu again
InterruptCommand ==
  /\ flow = "command"
  /\ flow' = "menu"
  /\ last_op' = "KeyboardInterrupt in user_command_input"
  /\ UNCHANGED <<game_settings, default_fleet, tmp_game_settings>>
  /\ UNCHANGED oracle_vars

\* settings_fleet, lines 2322-2324: KeyboardInterrupt returns False;
\* game_change_settings (line 1818) unpacks it into two names, which raises
\* a TypeError that no handler catches
InterruptFleet ==
  /\ flow = "fleet"
  /\ flow' = "error"
  /\ last_op' = "KeyboardInterrupt in settings_fleet"
  /\ UNCHANGED <<game_settings, default_fleet, tmp_game_settings>>
  /\ UNCHANGED oracle_vars

\* game_change_settings, lines 1826-1830: KeyboardInterrupt returns False;
\* game_instructions (lines 1746-1748) unpacks it into two names, which
\* raises a TypeError that no handler catches
InterruptSettings ==
  /\ flow = "menu"
  /\ flow' = "error"
  /\ last_op' = "KeyboardInterrupt in game_change_settings"
  /\ UNCHANGED <<game_settings, default_fleet, tmp_game_settings>>
  /\ UNCHANGED oracle_vars

NextScreens ==
  \/ NextSettings
  \/ InstructionsInput
  \/ SettingsInput
  \/ FleetInput
  \/ CommandInput
  \/ InterruptCommand
  \/ InterruptFleet
  \/ InterruptSettings

SpecScreens == InitScreens /\ [][NextScreens]_vars

\* ------------------------------------------------------------ default game
\* DEFAULT_SHIPS
DEFAULT_SHIPS ==
  << [name |-> "AircraftCarrier", size |-> 5, qty |-> 1],
     [name |-> "Battleship", size |-> 4, qty |-> 1],
     [name |-> "Cruiser", size |-> 3, qty |-> 1],
     [name |-> "Submarine", size |-> 3, qty |-> 1],
     [name |-> "Destroyer", size |-> 2, qty |-> 2],
     [name |-> "Tug Boat", size |-> 1, qty |-> 4] >>

\* create_fleet, lines 958-963: qty Ship objects per entry, in table order
RECURSIVE fleet_of_config(_)
fleet_of_config(config) ==
  IF config = <<>> THEN <<>>
  ELSE [i \in 1..config[1].qty |-> Ship(config[1].name, config[1].size)]
       \o fleet_of_config(Tail(config))

\* create_fleet() without an argument: the default fleet of ten ships
create_default_fleet == fleet_of_config(DEFAULT_SHIPS)

\* the default game: check_fleet_fits_map on the 10x10 grid of "?" with gaps
\* and the default fleet
InitDefault ==
  /\ symbol = game_settings_init.symbol
  /\ gaps = game_settings_init.gaps
  /\ grid = create_map(game_settings_init.height, game_settings_init.width,
                       game_settings_init.symbol)
  /\ grid0 = grid
  /\ map_game = "list"
  /\ fleet_config = create_default_fleet
  /\ tmp_fleet = <<>>
  /\ attempt = 0
  /\ failed = 0
  /\ raised = 0
  /\ pc = "loop"
  /\ result = "none"
  /\ game_settings = game_settings_init
  /\ default_fleet = create_default_fleet
  /\ tmp_game_settings = game_settings_init
  /\ flow = "call"
  /\ last_op = "none"
  /\ returned = [placement |-> "none", exception |-> "none"]
  /\ gaps_arg = PyInt(gaps)

\* the draws of random.choice that SpecDefault follows: the alignment
\* Horizontal and, for a ship of a size, one of these anchors.  They are part
\* of what random.choice can return on the 10x10 grid, so every behaviour of
\* SpecDefault is a run of the code, and not every run of the code is a
\* behaviour of SpecDefault.
DrawnAlignments == {"Horizontal"}
DrawnAnchors(ship_size) ==
  CASE ship_size = 5 -> { <<1, 1>> }
    [] ship_size = 4 -> { <<4, 1>> }
    [] ship_size = 3 -> { <<7, 1>>, <<7, 6>> }
    [] ship_size = 2 -> { <<4, 7>>, <<9, 1>>, <<1, 8>> }
    [] OTHER -> { <<1, 8>>, <<9, 5>>, <<9, 8>>, <<4, 7>>, <<4, 9>>, <<9, 1>> }

\* cpu_deploy_all_ships: one iteration that places the biggest undeployed
\* ship, for the draws in DrawnAlignments and DrawnAnchors
DeployShipDrawn ==
  /\ pc = "deploy"
  /\ map_game = "list"
  /\ get_biggest_ship_by_deployed_status(tmp_fleet) # 0
  /\ \E first \in DrawnAlignments :
       LET n == get_biggest_ship_by_deployed_status(tmp_fleet)
           rr == cpu_deploy_get_coordinates(grid, tmp_fleet[n].size, symbol,
                                            first)
       IN  /\ rr.ok
           /\ \E k \in 1..Len(rr.coordinates) :
                /\ rr.coordinates[k] \in DrawnAnchors(tmp_fleet[n].size)
                /\ LET c == deploy_commit(grid, tmp_fleet, gaps, symbol,
                                          first, k)
                   IN  /\ tmp_fleet' = c.fleet
                       /\ grid' = c.map
  /\ UNCHANGED <<grid0, map_game, symbol, gaps, fleet_config, attempt, failed,
                 raised, pc, result>>
  /\ UNCHANGED settings_vars
  /\ UNCHANGED returned
  /\ UNCHANGED gaps_arg

NextDefault ==
  \/ AttemptStart
  \/ OracleGiveUp
  \/ DeployComplete
  \/ DeployShipDrawn
  \/ DeployFail
  \/ DeployError

SpecDefault == InitDefault /\ [][NextDefault]_vars

\* ------------------------------------------------------------ preview map
\* tmp_ships_on_map(fleet_config, height, width, gaps, symbol) is called;
\* grid0 keeps the dimensions height and width; the free symbol is a string
\* of one character or of two
InitPreview ==
  /\ symbol \in Symbols \cup { <<"?", "?">> }
  /\ gaps \in BOOLEAN
  /\ \E hw \in (1..MaxHeight) \X (1..MaxWidth) :
       grid = create_map(hw[1], hw[2], symbol)
  /\ grid0 = grid
  /\ map_game = "list"
  /\ fleet_config \in Fleets
  /\ tmp_fleet = <<>>
  /\ attempt = 0
  /\ failed = 0
  /\ raised = 0
  /\ pc = "loop"
  /\ result = "none"
  /\ game_settings = game_settings_init
  /\ default_fleet = <<>>
  /\ tmp_game_settings = game_settings_init
  /\ flow = "preview"
  /\ last_op = "none"
  /\ returned = [placement |-> "none", exception |-> "none"]
  /\ gaps_arg = PyInt(gaps)

\* tmp_ships_on_map, lines 1776-1783: the head of `while True`: a new map and
\* a new fleet are created and cpu_deploy_all_ships is entered
PreviewStart ==
  /\ flow = "preview"
  /\ pc = "loop"
  /\ grid' = create_map(map_height(grid0), map_width(grid0), symbol)
  /\ tmp_fleet' = create_fleet(fleet_config)
  /\ map_game' = "list"
  /\ pc' = "deploy"
  /\ UNCHANGED <<grid0, symbol, gaps, fleet_config, attempt, failed, raised,
                 result, returned, gaps_arg>>
  /\ UNCHANGED settings_vars

\* tmp_ships_on_map, lines 1785-1787: cpu_deploy_all_ships returned False
\* (line 1352); tmp_map_game is False and the loop continues
PreviewFail ==
  /\ flow = "preview"
  /\ pc = "deploy"
  /\ map_game = "list"
  /\ get_biggest_ship_by_deployed_status(tmp_fleet) # 0
  /\ \A first \in Alignments : ~CanPlace(grid, tmp_fleet, symbol, first)
  /\ map_game' = "False"
  /\ returned' = [returned EXCEPT !.placement = "False"]
  /\ UNCHANGED gaps_arg
  /\ pc' = "loop"
  /\ UNCHANGED <<grid, grid0, symbol, gaps, fleet_config, tmp_fleet, attempt,
                 failed, raised, result>>
  /\ UNCHANGED settings_vars

NextPreview ==
  \/ PreviewStart
  \/ DeployShip
  \/ PreviewFail
  \/ DeployComplete

\* the program is one thread that runs whenever it can take a step
SpecPreview == InitPreview /\ [][NextPreview]_vars /\ WF_vars(NextPreview)

\* ------------------------------------------------------------ properties
Cells(ship) == { ship.cell_coordinates[i] : i \in 1..Len(ship.cell_coordinates) }

Success == pc = "done" /\ result = "list"

GapsDistinct == symbol # symbol_allocate_space

AllDeployed(fleet) == \A i \in 1..Len(fleet) : fleet[i].deployed

Abs(x) == IF x < 0 THEN -x ELSE x

Adjacent8(a, b) ==
  /\ a # b
  /\ Abs(a[1] - b[1]) <= 1
  /\ Abs(a[2] - b[2]) <= 1

GridCells(m) == { <<r, c>> : r \in DOMAIN m, c \in DOMAIN m[0] }

RECURSIVE SumSizes(_)
SumSizes(fleet) ==
  IF fleet = <<>> THEN 0 ELSE fleet[1].size + SumSizes(Tail(fleet))

\* the body symbols get_symbols can produce
ShipBodySymbols ==
  { c \o g \o DEFAULT_COLORS.Reset :
      c \in {DEFAULT_COLORS.DarkYellow, DEFAULT_COLORS.DarkBlue,
             DEFAULT_COLORS.DarkGreen},
      g \in { <<"25C6">>, <<"25C0">>, <<"25A4">>, <<"25B2">>, <<"25A5">> } }

\* is there a sequence of draws with which cpu_deploy_all_ships, run on the
\* map m and the fleet, deploys every ship
RECURSIVE CanDeployAll(_, _, _, _)
CanDeployAll(m, fleet, gapsFlag, sym) ==
  IF get_biggest_ship_by_deployed_status(fleet) = 0 THEN TRUE
  ELSE \E first \in Alignments :
         /\ CanPlace(m, fleet, sym, first)
         /\ \E k \in 1..NumAnchors(m, fleet, sym, first) :
              LET c == deploy_commit(m, fleet, gapsFlag, sym, first, k)
              IN  CanDeployAll(c.map, c.fleet, gapsFlag, sym)

\* C1: after a successful deployment with a free symbol other than the
\* buffer symbol, no two distinct ships of the fleet share a cell.
C1_ShipsDisjoint ==
  (Success /\ GapsDistinct) =>
    \A i, j \in 1..Len(tmp_fleet) :
      i # j => Cells(tmp_fleet[i]) \cap Cells(tmp_fleet[j]) = {}

C1_Witness ==
  /\ Success
  /\ GapsDistinct
  /\ Len(tmp_fleet) >= 2
  /\ \A i \in 1..Len(tmp_fleet) : Cells(tmp_fleet[i]) # {}

\* C2: after a successful deployment with gaps enabled (free symbol other
\* than the buffer symbol), no cell of a ship is edge- or corner-adjacent to
\* a cell of another ship.
C2_NoAdjacentShips ==
  (Success /\ gaps /\ GapsDistinct) =>
    \A i, j \in 1..Len(tmp_fleet) :
      i # j => \A a \in Cells(tmp_fleet[i]) : \A b \in Cells(tmp_fleet[j]) :
                 ~Adjacent8(a, b)

C2_Witness ==
  /\ Success
  /\ gaps
  /\ GapsDistinct
  /\ Len(tmp_fleet) >= 2
  /\ AllDeployed(tmp_fleet)
  /\ tmp_fleet[1].size >= 2

\* C3: every attempt of check_fleet_fits_map enters the deployment loop with
\* a grid whose cells all hold the free symbol and a fleet clone whose ships
\* are all undeployed.
C3_AttemptStartsFresh ==
  [][AttemptStart =>
       /\ map_game' = "list"
       /\ \A rc \in GridCells(grid') : grid'[rc[1]][rc[2]] = symbol'
       /\ \A i \in 1..Len(tmp_fleet') :
            ~tmp_fleet'[i].deployed /\ tmp_fleet'[i].cell_coordinates = <<>>]_vars

\* C4: when an attempt has failed on a configuration that has a deployment
\* and attempts are left, a later attempt can still succeed.
C4_LaterAttemptCanSucceed ==
  (/\ pc = "loop"
   /\ failed >= 1
   /\ attempt < RetryLimit
   /\ CanDeployAll(grid0, create_fleet(fleet_config), gaps, symbol))
  => (/\ map_game = "list"
      /\ CanDeployAll(grid, create_fleet(fleet_config), gaps, symbol))

\* C5: a grid is returned only by an attempt that placed every ship of the
\* fleet configuration; all earlier attempts failed.
C5_NoFalsePositive ==
  result = "list" =>
    /\ pc = "done"
    /\ Len(tmp_fleet) = Len(fleet_config)
    /\ \A i \in 1..Len(tmp_fleet) :
         /\ tmp_fleet[i].deployed
         /\ tmp_fleet[i].name = fleet_config[i].name
         /\ tmp_fleet[i].size = fleet_config[i].size
         /\ Len(tmp_fleet[i].cell_coordinates) = tmp_fleet[i].size
    /\ failed = attempt - 1

C5_Witness ==
  /\ Success
  /\ Len(fleet_config) >= 2
  /\ AllDeployed(tmp_fleet)

\* C6: a grid with fewer cells than the fleet's total size is never reported
\* feasible (free symbol other than the buffer symbol), gaps on or off.
C6_TooSmallGridInfeasible ==
  (GapsDistinct /\ Cardinality(GridCells(grid0)) < SumSizes(fleet_config)) =>
    /\ result # "list"
    /\ pc = "done" => result = "False"

C6_Witness ==
  /\ GapsDistinct
  /\ Cardinality(GridCells(grid0)) < SumSizes(fleet_config)
  /\ pc = "done"
  /\ result = "False"
  /\ grid # grid0

\* C7: after a call of check_fleet_fits_map the caller's grid holds the
\* symbols it held before the call and the caller's fleet is undeployed.
C7_CallerDataUnchanged ==
  pc = "done" =>
    /\ grid = grid0
    /\ \A i \in 1..Len(fleet_config) :
         ~fleet_config[i].deployed /\ fleet_config[i].cell_coordinates = <<>>

OracleAnswered ==
  flow \in {"resize", "add", "modify"} /\ pc = "done"

C9_FirstSuccessOrFiftyFailures ==
  /\ result # "none" => pc = "done"
  /\ result = "list" => (failed = attempt - 1 /\ attempt <= 50)
  /\ result = "False" => (attempt = 50 /\ failed = 50)
  /\ (/\ pc = "done"
      /\ map_height(grid0) = 3
      /\ map_width(grid0) = 3
      /\ Len(fleet_config) = 1
      /\ fleet_config[1].size = 5) => (result = "False" /\ attempt = 50)

C9_Witness ==
  /\ pc = "done"
  /\ result = "False"
  /\ attempt = 50
  /\ map_height(grid0) = 3
  /\ map_width(grid0) = 3
  /\ Len(fleet_config) = 1
  /\ fleet_config[1].size = 5

\* C10: the grid of a successful deployment holds no buffer symbol; every
\* cell holds the free symbol or a ship-body symbol, and the cells holding a
\* body symbol are exactly the cells of the deployed ships, each holding the
\* symbol of its ship (free symbol other than the buffer symbol).
C10_OnlyShipsOnResult ==
  (Success /\ GapsDistinct) =>
    /\ \A rc \in GridCells(grid) :
         /\ grid[rc[1]][rc[2]] # symbol_allocate_space
         /\ grid[rc[1]][rc[2]] = symbol \/ grid[rc[1]][rc[2]] \in ShipBodySymbols
    /\ { rc \in GridCells(grid) : grid[rc[1]][rc[2]] \in ShipBodySymbols }
         = UNION { Cells(tmp_fleet[i]) : i \in 1..Len(tmp_fleet) }
    /\ \A i \in 1..Len(tmp_fleet) : \A n \in 1..Len(tmp_fleet[i].cell_coordinates) :
         grid[tmp_fleet[i].cell_coordinates[n][1]][tmp_fleet[i].cell_coordinates[n][2]]
           = get_symbols(tmp_fleet[i])[n]

C10_Witness ==
  /\ Success
  /\ GapsDistinct
  /\ gaps
  /\ Len(tmp_fleet) >= 1
  /\ AllDeployed(tmp_fleet)
  /\ \E rc \in GridCells(grid) : grid[rc[1]][rc[2]] = symbol

\* C11: in every state of a deployment run (loop boundaries and results)
\* each ship of the attempt's fleet and of the caller's fleet has exactly
\* `size` coordinates if and only if it is deployed, and an undeployed ship
\* has no coordinates.
C11_CoordinatesIffDeployed ==
  \A fleet \in {tmp_fleet, fleet_config} : \A i \in 1..Len(fleet) :
    fleet[i].size >= 1 =>
      /\ (Len(fleet[i].cell_coordinates) = fleet[i].size) <=> fleet[i].deployed
      /\ ~fleet[i].deployed => fleet[i].cell_coordinates = <<>>

C11_Witness ==
  /\ pc = "deploy"
  /\ Len(tmp_fleet) >= 2
  /\ \E i, j \in 1..Len(tmp_fleet) :
       /\ tmp_fleet[i].deployed
       /\ tmp_fleet[i].size >= 2
       /\ Len(tmp_fleet[i].cell_coordinates) = tmp_fleet[i].size
       /\ ~tmp_fleet[j].deployed

\* C12: every step of the deployment loop that places a ship places a ship
\* whose size is maximal among the ships not yet deployed, the first such
\* ship in fleet order, and no ship deployed before it is smaller: ships are
\* committed in non-increasing order of size.
C12_BiggestFirst ==
  [][DeployShip =>
       \E n \in 1..Len(tmp_fleet) :
         /\ ~tmp_fleet[n].deployed
         /\ tmp_fleet'[n].deployed
         /\ \A j \in 1..Len(tmp_fleet) :
              /\ j # n => tmp_fleet'[j] = tmp_fleet[j]
              /\ ~tmp_fleet[j].deployed =>
                   /\ tmp_fleet[j].size <= tmp_fleet[n].size
                   /\ tmp_fleet[j].size = tmp_fleet[n].size => n <= j
              /\ tmp_fleet[j].deployed => tmp_fleet[j].size >= tmp_fleet[n].size
    ]_vars

C12_Witness ==
  /\ pc = "deploy"
  /\ Len(tmp_fleet) = 2
  /\ tmp_fleet[1].size < tmp_fleet[2].size
  /\ tmp_fleet[2].deployed
  /\ ~tmp_fleet[1].deployed

Min(a, b) == IF a <= b THEN a ELSE b

SingleMinShip ==
  /\ Len(symbol) = 1
  /\ Len(fleet_config) = 1
  /\ fleet_config[1].size = Min(map_height(grid0), map_width(grid0))

DefaultGame ==
  /\ grid0 = create_map(game_settings_init.height, game_settings_init.width,
                        game_settings_init.symbol)
  /\ symbol = game_settings_init.symbol
  /\ gaps
  /\ fleet_config = create_default_fleet

C15_NoExceptionInAttempt ==
  /\ raised = 0
  /\ returned.exception = "none"
  /\ failed > 0 => returned.placement = "False"

\* C16: the value cpu_deploy_all_ships returns when a ship cannot be placed
\* differs from the value it returns from its except branch.
C16_InfeasibleDiffersFromError ==
  (returned.placement # "none" /\ returned.exception # "none")
    => returned.placement # returned.exception

\* the h x w block anchored at (r, c) lies inside the grid m and every cell
\* of it holds the symbol free
BlockFree(m, r, c, h, w, free) ==
  \A i \in 0..(h - 1) : \A j \in 0..(w - 1) :
    /\ r + i \in DOMAIN m
    /\ c + j \in DOMAIN m[0]
    /\ m[r + i][c + j] = free

RowMajorBefore(a, b) == a[1] < b[1] \/ (a[1] = b[1] /\ a[2] < b[2])

\* the deployment loop is about to search the grid
Searching == pc = "deploy" /\ map_game = "list"

\* C17: on every grid the deployment loop searches, for a one-character free
\* symbol and every block size h x w up to one more than the grid's
\* dimensions, search_pattern returns exactly the anchors of the blocks that
\* lie inside the grid and are all free, in strictly increasing row-major
\* order (so without duplicates), and the empty list when h or w exceeds the
\* grid's dimension.
C17_SearchPatternExact ==
  (Searching /\ Len(symbol) = 1) =>
    \A h \in 1..(map_height(grid) + 1) : \A w \in 1..(map_width(grid) + 1) :
      LET res == search_pattern(grid, h, w, symbol)
      IN  /\ { res[k] : k \in 1..Len(res) }
               = { rc \in GridCells(grid) :
                     BlockFree(grid, rc[1], rc[2], h, w, symbol) }
          /\ \A k1, k2 \in 1..Len(res) :
               k1 < k2 => RowMajorBefore(res[k1], res[k2])
          /\ (h > map_height(grid) \/ w > map_width(grid)) => res = <<>>

C17_Witness ==
  /\ Len(symbol) = 1
  /\ Searching
  /\ \E rc \in GridCells(grid) : grid[rc[1]][rc[2]] \in ShipBodySymbols
  /\ Len(search_pattern(grid, 1, 1, symbol)) >= 2
  /\ Len(search_pattern(grid, 1, 2, symbol)) >= 2
  /\ Len(search_pattern(grid, 1, 2, symbol))
       < (map_width(grid) - 1) * map_height(grid)
  /\ search_pattern(grid, 1, map_width(grid) + 1, symbol) = <<>>

Max(a, b) == IF a >= b THEN a ELSE b

\* the grid m has a free block of ship_size cells along the alignment
HasFreeBlock(m, ship_size, alignment, free) ==
  \E rc \in GridCells(m) :
    BlockFree(m, rc[1], rc[2],
              IF alignment = "Horizontal" THEN 1 ELSE ship_size,
              IF alignment = "Vertical" THEN 1 ELSE ship_size, free)

C20_BufferSparesShipBodies ==
  [][(DeployShip /\ gaps) =>
       \A n \in 1..Len(tmp_fleet) :
         (~tmp_fleet[n].deployed /\ tmp_fleet'[n].deployed) =>
           LET cc == tmp_fleet'[n].cell_coordinates
               written == { rc \in GridCells(grid) :
                              \E s \in blank_space : \E i \in 1..Len(cc) :
                                rc = <<s[1] + cc[i][1], s[2] + cc[i][2]>> }
           IN  /\ \A rc \in written : grid[rc[1]][rc[2]] \notin ShipBodySymbols
               /\ \A j \in 1..Len(tmp_fleet') :
                    \A i \in 1..Len(tmp_fleet'[j].cell_coordinates) :
                      grid'[tmp_fleet'[j].cell_coordinates[i][1]]
                           [tmp_fleet'[j].cell_coordinates[i][2]]
                        = get_symbols(tmp_fleet'[j])[i]
    ]_vars

\* C21: in a run with gaps disabled every cell of the grid holds, at every
\* step, the free symbol or a ship-body symbol (never a buffer symbol that
\* is not the free symbol), and no two ships share a cell; ships may be
\* adjacent.
C21_NoBufferWithoutGaps ==
  ~gaps =>
    /\ \A rc \in GridCells(grid) :
         /\ grid[rc[1]][rc[2]] = symbol \/ grid[rc[1]][rc[2]] \in ShipBodySymbols
         /\ GapsDistinct => grid[rc[1]][rc[2]] # symbol_allocate_space
    /\ \A i, j \in 1..Len(tmp_fleet) :
         i # j => Cells(tmp_fleet[i]) \cap Cells(tmp_fleet[j]) = {}

C21_Witness ==
  /\ ~gaps
  /\ GapsDistinct
  /\ Success
  /\ \E i, j \in 1..Len(tmp_fleet) :
       /\ i # j
       /\ \E a \in Cells(tmp_fleet[i]) : \E b \in Cells(tmp_fleet[j]) :
            Adjacent8(a, b)
  /\ \E rc \in GridCells(grid) : grid[rc[1]][rc[2]] = symbol

\* a ship of the fleet is longer than both sides of the grid
ShipTooLong ==
  \E i \in 1..Len(fleet_config) :
    fleet_config[i].size > Max(map_height(grid0), map_width(grid0))

\* C22: tmp_ships_on_map called with a fleet that cannot be deployed on a
\* grid of the given dimensions (a ship is longer than both sides of the
\* grid) eventually returns False.
C22_PreviewReturnsFalseWhenInfeasible ==
  ShipTooLong => <>(pc = "done" /\ result = "False")

\* number of ships of the fleet that are not deployed
NumUndeployed(fleet) ==
  Cardinality({ i \in 1..Len(fleet) : ~fleet[i].deployed })

\* the work left in a call of check_fleet_fits_map: the attempts not yet
\* started, each worth one placement per ship plus its start, its end and the
\* return, and the placements left in the running attempt
WorkLeft ==
  CASE pc = "done" -> 0
    [] pc = "loop" ->
         (RetryLimit - attempt) * (Len(fleet_config) + 3) + 1
    [] OTHER ->
         (RetryLimit - attempt) * (Len(fleet_config) + 3)
           + NumUndeployed(tmp_fleet) + 2

\* C23: every attempt and every call of check_fleet_fits_map terminates:
\* each step strictly reduces the work left, which is never negative; a step
\* of cpu_deploy_all_ships either deploys exactly one ship that was not
\* deployed (a deployed ship is never placed again) or ends the attempt with
\* the fleet as it is; no more than 50 attempts are started.
C23_BoundedPlacementsAndAttempts ==
  [][ /\ WorkLeft >= 0
      /\ WorkLeft' >= 0
      /\ WorkLeft' < WorkLeft
      /\ attempt' <= RetryLimit
      /\ pc = "deploy" =>
           \/ /\ pc' = "deploy"
              /\ attempt' = attempt
              /\ NumUndeployed(tmp_fleet') = NumUndeployed(tmp_fleet) - 1
              /\ \A i \in 1..Len(tmp_fleet) :
                   tmp_fleet[i].deployed => tmp_fleet'[i] = tmp_fleet[i]
           \/ /\ pc' \in {"loop", "done"}
              /\ tmp_fleet' = tmp_fleet
    ]_vars

C23_Witness ==
  /\ pc = "done"
  /\ result = "False"
  /\ attempt = RetryLimit
  /\ raised = RetryLimit - 1
  /\ Len(tmp_fleet) = MaxShips
  /\ WorkLeft = 0

\* the sum of the quantities of the first k records of a configuration
RECURSIVE QtyUpTo(_, _)
QtyUpTo(config, k) ==
  IF k = 0 THEN 0 ELSE QtyUpTo(config, k - 1) + config[k].qty

\* the record of a configuration that the i-th unit of quantity belongs to
RecordOfUnit(config, i) ==
  CHOOSE k \in 1..Len(config) :
    QtyUpTo(config, k - 1) < i /\ i <= QtyUpTo(config, k)

\* C24: create_fleet builds one Ship per unit of quantity, in record order:
\* the default fleet has as many ships as the quantities of DEFAULT_SHIPS sum
\* to (10), and its i-th ship has the name and size of the record of the i-th
\* unit; a fleet rebuilt from an existing fleet, deployed or not, has one
\* ship per ship of its source with the source's name and size, and every
\* ship of a new fleet is undeployed with empty coordinates.
C24_CreateFleetUnits ==
  /\ Len(fleet_config) = QtyUpTo(DEFAULT_SHIPS, Len(DEFAULT_SHIPS))
  /\ Len(fleet_config) = 10
  /\ \A i \in 1..Len(fleet_config) :
       LET rec == DEFAULT_SHIPS[RecordOfUnit(DEFAULT_SHIPS, i)]
       IN  /\ fleet_config[i].name = rec.name
           /\ fleet_config[i].size = rec.size
           /\ ~fleet_config[i].deployed
           /\ fleet_config[i].cell_coordinates = <<>>
  /\ LET rebuilt == create_fleet(tmp_fleet)
     IN  /\ Len(rebuilt) = Len(tmp_fleet)
         /\ \A i \in 1..Len(tmp_fleet) :
              /\ rebuilt[i].name = tmp_fleet[i].name
              /\ rebuilt[i].size = tmp_fleet[i].size
              /\ ~rebuilt[i].deployed
              /\ rebuilt[i].cell_coordinates = <<>>
  /\ attempt >= 1 =>
       /\ Len(tmp_fleet) = Len(fleet_config)
       /\ \A i \in 1..Len(tmp_fleet) :
            /\ tmp_fleet[i].name = fleet_config[i].name
            /\ tmp_fleet[i].size = fleet_config[i].size
  /\ (pc = "deploy" /\ map_game # "list") =>
       \A i \in 1..Len(tmp_fleet) :
         ~tmp_fleet[i].deployed /\ tmp_fleet[i].cell_coordinates = <<>>

C24_Witness ==
  /\ Len(tmp_fleet) = 10
  /\ AllDeployed(tmp_fleet)
  /\ \A i \in 1..Len(tmp_fleet) :
       Len(tmp_fleet[i].cell_coordinates) = tmp_fleet[i].size
  /\ \A i \in 1..Len(create_fleet(tmp_fleet)) :
       ~create_fleet(tmp_fleet)[i].deployed

\* C25: in every oracle call made by the settings flows (map resize, add
\* ship, modify ship) the gap flag that check_fleet_fits_map receives equals
\* the live setting game_settings.gaps.
C25_GapFlagIsLiveSetting ==
  flow \in {"resize", "add", "modify"} =>
    gaps_arg = PyInt(game_settings.gaps)

\* C26: on the user-command screen typing 0 takes the user back: the
\* function returns to the settings menu with the settings and the fleet as
\* they are.
C26_ZeroLeavesCommandScreen ==
  [][ (flow = "command" /\ last_op' = "typed 0") =>
        /\ flow' = "menu"
        /\ UNCHANGED <<game_settings, default_fleet>>
    ]_vars

\* what last_op says after a KeyboardInterrupt in a settings screen
Interrupted ==
  { "KeyboardInterrupt in game_change_settings",
    "KeyboardInterrupt in settings_fleet",
    "KeyboardInterrupt in user_command_input" }

\* C27: a KeyboardInterrupt inside a settings screen (the settings menu, the
\* fleet screen, the user-command screen) returns control to the calling
\* screen with the settings and the fleet as they are, and no error is
\* raised.
C27_InterruptReturnsToCaller ==
  [][ (flow \in {"menu", "fleet", "command"}
         /\ last_op' \in Interrupted) =>
        /\ flow' = IF flow = "menu" THEN "instructions" ELSE "menu"
        /\ flow' # "error"
        /\ UNCHANGED <<game_settings, default_fleet>>
    ]_vars

\* C28: whenever a settings screen waits for input, after any sequence of
\* map resizes and added, modified and deleted ships, the live configuration
\* (height, width, fleet, gaps) admits a complete deployment: there are draws
\* with which cpu_deploy_all_ships, as tmp_ships_on_map calls it on a new map
\* and a new fleet, deploys every ship, so the preview loop can return.
C28_LiveConfigurationDeployable ==
  flow = "menu" =>
    CanDeployAll(create_map(game_settings.height, game_settings.width,
                            game_settings.symbol),
                 create_fleet(default_fleet),
                 game_settings.gaps, game_settings.symbol)

C28_Witness ==
  /\ flow = "menu"
  /\ last_op = "modify_commit"
  /\ Len(default_fleet) >= 1
  /\ game_settings.height * game_settings.width < MaxSetHeight * MaxSetWidth
  /\ \E i \in 1..Len(default_fleet) : default_fleet[i].size > 1

\* C29: after a successful deployment, whatever the free symbol is (the
\* buffer symbol "x" included), no two distinct ships share a cell, and with
\* gaps enabled no cell of a ship is edge- or corner-adjacent to a cell of
\* another ship.
C29_GuaranteesForEveryFreeSymbol ==
  Success =>
    \A i, j \in 1..Len(tmp_fleet) :
      i # j =>
        /\ Cells(tmp_fleet[i]) \cap Cells(tmp_fleet[j]) = {}
        /\ gaps => \A a \in Cells(tmp_fleet[i]) :
                     \A b \in Cells(tmp_fleet[j]) : ~Adjacent8(a, b)

\* every cell of the map m holds the symbol sym
AllFree(m, sym) == \A rc \in GridCells(m) : m[rc[1]][rc[2]] = sym

\* C30: search_pattern does not depend on the length of the free symbol: on
\* a grid whose cells all hold the free symbol, of one character or more, it
\* returns every anchor at which a block of the given height and width lies
\* within the grid.
C30_SearchIgnoresSymbolLength ==
  (pc = "deploy" /\ AllFree(grid, symbol)) =>
    \A height \in 1..map_height(grid) : \A width \in 1..map_width(grid) :
      Len(search_pattern(grid, height, width, symbol))
        = (map_height(grid) - height + 1) * (map_width(grid) - width + 1)

====
